---- MODULE Spec2Model ----
(***************************************************************************)
(* Change-set discovery of paths-filter (src/src/git.ts).                  *)
(*                                                                         *)
(* Strings are finite sequences of atoms.  An atom is one character, or a  *)
(* chunk of characters that no regular expression, split or prefix test of *)
(* git.ts ever looks inside ("refs/", "remotes/", "origin/", a branch      *)
(* name).  NUL is the atom of the character U+0000.                        *)
(***************************************************************************)
EXTENDS Integers, Sequences, FiniteSets, TLC

\* ------------------------------------------------------------------ bounds
MaxPairs == 2        \* (status, path) records of an encoded diff output
MaxTrail == 2        \* trailing NUL delimiters after the last record
RemoteSize == 3      \* commits of the remote history
MaxRefLines == 3     \* lines of a show-ref output given to getFullRef

\* -------------------------------------------------------- string helpers
NUL == "NUL"
undefined == "undefined"

\* String.prototype.split(sep) for a one-atom separator: the pieces between
\* consecutive separators, one more than there are separators
Split(s, sep) ==
  LET P == {i \in 1..Len(s) : s[i] = sep}
      n == Cardinality(P)
      Pos(k) == IF k = 0 THEN 0
                ELSE IF k = n + 1 THEN Len(s) + 1
                ELSE CHOOSE i \in P : Cardinality({j \in P : j <= i}) = k
  IN [k \in 1..(n + 1) |-> SubSeq(s, Pos(k - 1) + 1, Pos(k) - 1)]

NonEmpty(t) == Len(t) > 0

\* .filter(s => s.length > 0)
FilterNonEmpty(s) == SelectSeq(s, NonEmpty)

\* ------------------------------------------------------------ statusMap
ChangeStatus == {"Added", "Copied", "Deleted", "Modified", "Renamed", "Unmerged"}

\* statusMap[tok]: a key the object does not hold reads as undefined
statusMap_Swapped(tok) ==
  CASE tok = <<"A">> -> "Added"
    [] tok = <<"C">> -> "Copied"
    [] tok = <<"D">> -> "Modified"
    [] tok = <<"M">> -> "Deleted"
    [] tok = <<"R">> -> "Renamed"
    [] tok = <<"U">> -> "Unmerged"
    [] OTHER -> undefined

statusMap(tok) ==
  CASE tok = <<"A">> -> "Added"
    [] tok = <<"C">> -> "Copied"
    [] tok = <<"D">> -> "Deleted"
    [] tok = <<"M">> -> "Modified"
    [] tok = <<"R">> -> "Renamed"
    [] tok = <<"U">> -> "Unmerged"
    [] OTHER -> undefined

\* --------------------------------------------------- parseGitDiffOutput
Tokens_NoFilter(output) == Split(output, NUL)

\* output.split('\u0000').filter(s => s.length > 0)
Tokens(output) == FilterNonEmpty(Split(output, NUL))

RECURSIVE PairUp(_, _)
\* for (let i = 0; i + 1 < tokens.length; i += 2) files.push(...)
PairUp(tokens, i) ==
  IF i + 1 < Len(tokens)
  THEN <<[status |-> statusMap(tokens[i + 1]), filename |-> tokens[i + 2]]>>
       \o PairUp(tokens, i + 2)
  ELSE <<>>

parseGitDiffOutput(output) == PairUp(Tokens(output), 0)

\* --------------------------------------------- listAllFilesAsAdded, lines 146-152
RECURSIVE AsAdded_Mapped(_)
AsAdded_Mapped(paths) ==
  IF paths = <<>> THEN <<>>
  ELSE <<[status |-> statusMap(<<Head(paths)[1]>>), filename |-> Head(paths)]>>
         \o AsAdded_Mapped(Tail(paths))

RECURSIVE AsAdded(_)
AsAdded(paths) ==
  IF paths = <<>> THEN <<>>
  ELSE <<[status |-> "Added", filename |-> Head(paths)]>> \o AsAdded(Tail(paths))

\* output.split('\u0000').filter(s => s.length > 0).map(path => ({status: Added, filename: path}))
AllAsAdded(output) == AsAdded(Tokens(output))

\* ------------------------------------------------------- getCommitCount
Digit == <<"0", "1", "2", "3", "4", "5", "6", "7", "8", "9">>
IsDigit(a) == \E d \in 1..10 : Digit[d] = a
DigitVal(a) == (CHOOSE d \in 1..10 : Digit[d] = a) - 1
IsSpace(a) == a \in {" ", "\n", "\r", "\t"}

RECURSIVE ToDecimal(_)
\* the decimal text git prints for a count
ToDecimal(n) ==
  IF n < 10 THEN <<Digit[n + 1]>> ELSE Append(ToDecimal(n \div 10), Digit[(n % 10) + 1])

RECURSIVE SkipSpace(_)
SkipSpace(s) == IF s # <<>> /\ IsSpace(Head(s)) THEN SkipSpace(Tail(s)) ELSE s

RECURSIVE DigitsValue(_, _, _)
DigitsValue(s, acc, seen) ==
  IF s # <<>> /\ IsDigit(Head(s))
  THEN DigitsValue(Tail(s), acc * 10 + DigitVal(Head(s)), TRUE)
  ELSE [nan |-> ~seen, val |-> acc]

\* parseInt(output): leading white space skipped, the longest prefix of digits read,
\* NaN when there is none (counts are never signed)
parseInt(s) == DigitsValue(SkipSpace(s), 0, FALSE)

\* const count = parseInt(output); return isNaN(count) ? 0 : count
getCommitCount(output) == IF parseInt(output).nan THEN 0 ELSE parseInt(output).val

\* ------------------------------------------------- depth (Number) arithmetic
\* A depth is a non-negative integer below 2^54 kept as two 27-bit limbs,
\* value = hi * 2^27 + lo: Number.MAX_SAFE_INTEGER = 2^53 - 1 does not fit
\* TLC's 32-bit integers.  Doubling is exact in IEEE doubles on this range.
Limb == 2 ^ 27
Num(n) == [hi |-> 0, lo |-> n]
LessEq(a, b) == a.hi < b.hi \/ (a.hi = b.hi /\ a.lo <= b.lo)
Times2(a) == [hi |-> 2 * a.hi + ((2 * a.lo) \div Limb), lo |-> (2 * a.lo) % Limb]
Min(a, b) == IF LessEq(a, b) THEN a ELSE b
MAX_SAFE_INTEGER == [hi |-> 2 ^ 26 - 1, lo |-> 2 ^ 27 - 1]
NoDepth == [hi |-> -1, lo |-> -1]

NextDepth_NoDouble(depth) == Min(depth, MAX_SAFE_INTEGER)

\* depth = Math.min(depth * 2, Number.MAX_SAFE_INTEGER)
NextDepth(depth) == Min(Times2(depth), MAX_SAFE_INTEGER)

\* ------------------------------------------------------------- isGitSha
LowerAlnum ==
  {"a", "b", "c", "d", "e", "f", "g", "h", "i", "j", "k", "l", "m", "n", "o", "p", "q",
   "r", "s", "t", "u", "v", "w", "x", "y", "z",
   "0", "1", "2", "3", "4", "5", "6", "7", "8", "9"}

\* /^[a-z0-9]{40}$/.test(ref)
isGitSha(r) == Len(r) = 40 /\ \A i \in 1..40 : r[i] \in LowerAlnum

\* ------------------------------------------------------------ getFullRef
Undef == <<undefined>>      \* an undefined string; a template literal prints it so

\* output.split(/\r?\n/g): a "\r" right before a "\n" belongs to the separator, so
\* it is dropped from the end of every piece but the last
SplitLines(output) ==
  LET pieces == Split(output, "\n")
      Strip(l, last) == IF ~last /\ l # <<>> /\ l[Len(l)] = "\r"
                        THEN SubSeq(l, 1, Len(l) - 1) ELSE l
  IN [k \in 1..Len(pieces) |-> Strip(pieces[k], k = Len(pieces))]

\* l.match(/refs\/.*$/)?.[0] ?? '': from the leftmost "refs/" that no line
\* terminator follows, to the end of the line
MatchRefs(l) ==
  LET starts == {i \in 1..Len(l) :
                   l[i] = "refs/" /\ \A j \in i..Len(l) : l[j] \notin {"\r", "\n"}}
  IN IF starts = {} THEN <<>>
     ELSE SubSeq(l, CHOOSE i \in starts : \A j \in starts : i <= j, Len(l))

\* .map(l => ...).filter(l => l !== '')
RefsOf(output) ==
  LET lines == SplitLines(output)
  IN FilterNonEmpty([k \in 1..Len(lines) |-> MatchRefs(lines[k])])

IsRemoteRef(r) == Len(r) >= 3 /\ SubSeq(r, 1, 3) = <<"refs/", "remotes/", "origin/">>

FullRefOf_First(output) ==
  LET refs == RefsOf(output) IN IF Len(refs) = 0 THEN Undef ELSE refs[1]

\* getFullRef after show-ref returned: undefined without refs, else the first
\* refs/remotes/origin/ reference, else the first reference
FullRefOf(output) ==
  LET refs == RefsOf(output)
      remote == {i \in 1..Len(refs) : IsRemoteRef(refs[i])}
  IN IF Len(refs) = 0 THEN Undef
     ELSE IF remote # {} THEN refs[CHOOSE i \in remote : \A j \in remote : i <= j]
     ELSE refs[1]

\* ------------------------------------------------------------------ state
VARIABLES
  op,                \* the operation of git.ts being run
  pc,                \* its position: "Lnn" at line nn, "Lnnw" awaiting the exec of line nn
  base, ref, initialFetchDepth,                 \* arguments
  baseRef, noMergeBase, depth, lastCommitCount, \* locals of the operation
  inflight,          \* indices into calls of the accessor invocations not yet returned
  res,               \* {code, stdout} of the invocation that returned last
  calls,             \* every accessor invocation issued, in order, with its exit code
  commits,           \* commits in the local repository (rev-list --count --all)
  revListGarbled,    \* rev-list prints no number in this repository
  stagedNew,         \* a new file is staged in the index and not committed
  outcome,           \* "none" | "running" | "returned" | "threw"
  files,             \* the File[] returned
  error,             \* what was thrown
  warned,            \* core.warning was called
  group,             \* core.startGroup / core.endGroup bookkeeping
  pPairs, pTrail,    \* the (status token, path) records and trailing NULs of a raw output
  pClause, pMatched, \* a clause of a rule and the files of pFiles it matches
  rName, rLines,     \* a short name given to getFullRef and the lines show-ref prints
  rOutput, rInvoked, \* that stdout of show-ref, and whether getFullRef invoked it
  rRef,              \* what getFullRef returned
  pOutput, pFiles, ppc   \* that raw output, what a pure function made of it, and which

args == <<base, ref, initialFetchDepth>>
locals == <<baseRef, noMergeBase, depth, lastCommitCount>>
io == <<inflight, res, calls>>
repo == <<commits, revListGarbled, stagedNew>>
result == <<outcome, files, error>>
resolve == <<rName, rLines, rOutput, rInvoked, rRef>>
pure == <<pPairs, pTrail, pOutput, pFiles, ppc, pClause, pMatched, resolve>>
vars == <<op, pc, args, locals, io, repo, result, warned, group, pure>>

Pending == 0 - 1     \* the exit code of an invocation that has not returned
ExitCodes == {0, 1}

\* ------------------------------------------------------------ the inputs
Sha40 == [i \in 1..40 |-> IF i % 2 = 0 THEN "a" ELSE "7"]
Bases == {<<"m", "a", "i", "n">>, Sha40}
Refs == {<<"t", "o", "p", "i", "c">>}
HEAD == <<"HEAD">>
InitialFetchDepths == {Num(0), Num(1), Num(10), [hi |-> 2 ^ 25, lo |-> 0], MAX_SAFE_INTEGER}

Line(atoms) == <<"5", "f", " ">> \o atoms
ShowRefOutputs ==
  { <<>>,
    Line(<<"refs/", "heads/", "main">>) \o <<"\r", "\n">>
      \o Line(<<"refs/", "remotes/", "origin/", "main">>) \o <<"\r", "\n">>,
    Line(<<"refs/", "tags/", "main">>) \o <<"\n">>,
    <<"w", "a", "r", "n", "\n">> }

Record(status, path) == <<status, NUL>> \o path \o <<NUL>>
DiffOutputs ==
  { <<>>,
    Record("A", <<"f">>) \o Record("D", <<"g">>),
    Record("M", <<"f">>) \o Record("U", <<"f">>),
    Record("T", <<"g">>) }
LsFilesOutputs == { <<>>, <<"f", NUL, "g", NUL>>, <<"f", NUL, "f", NUL>> }

\* The pure functions of git.ts on every output the accessor can print here,
\* computed once
FullRefOfOutput == [o \in ShowRefOutputs |-> FullRefOf(o)]
FilesOfOutput == [o \in DiffOutputs |-> parseGitDiffOutput(o)]
AddedOfOutput == [o \in LsFilesOutputs |-> AllAsAdded(o)]

\* Rule clauses: a status filter and a glob, here a literal path or "*"
StatusFilters == {{"Added"}, {"Deleted"}, {"Modified"}, {"Added", "Deleted", "Modified"}}
Globs == {<<"f">>, <<"*">>}
Clauses == [statusFilter : StatusFilters, glob : Globs]
NoClause == [statusFilter |-> {}, glob |-> <<>>]

\* "*" matches any run of characters without a path separator; any other glob is a
\* literal path here
GlobMatches(glob, path) ==
  IF glob = <<"*">> THEN path # <<>> /\ \A i \in 1..Len(path) : path[i] # "/"
  ELSE path = glob
ClauseMatches(c, file) ==
  file.status \in c.statusFilter /\ GlobMatches(c.glob, file.filename)
MatchedFiles(c, fs) == LET Hit(file) == ClauseMatches(c, file) IN SelectSeq(fs, Hit)

\* ---------------------------------------------------- accessor invocations
Cmd(cmd, opts, d, operands, ignore) ==
  [cmd |-> cmd, opts |-> opts, depth |-> d, operands |-> operands,
   ignoreReturnCode |-> ignore, code |-> Pending, stdout |-> <<>>]

LogCmd == Cmd("log", <<"--format=", "--no-renames", "--name-status", "-z", "-n", "1">>,
              NoDepth, <<>>, FALSE)
DiffCmd(diffArg) == Cmd("diff", <<"--no-renames", "--name-status", "-z">>, NoDepth,
                        <<diffArg>>, FALSE)
LsFilesCmd == Cmd("ls-files", <<"-z">>, NoDepth, <<>>, FALSE)
CatFileCmd(r) == Cmd("cat-file", <<"-e">>, NoDepth, <<r \o <<"^{commit}">> >>, TRUE)
FetchSingleCmd(r) == Cmd("fetch", <<"--depth=", "--no-tags", "origin">>, Num(1), <<r>>, FALSE)
MergeBaseCmd(b, r) == Cmd("merge-base", <<>>, NoDepth, <<b, r>>, TRUE)
FetchDepthCmd(d, b, r) == Cmd("fetch", <<"--no-tags", "--depth=", "origin">>, d, <<b, r>>, FALSE)
FetchTagsCmd(b, r) == Cmd("fetch", <<"--tags", "--depth=", "origin">>, Num(1), <<b, r>>, FALSE)
DeepenCmd_Tolerant(d, b, r) == Cmd("fetch", <<"--deepen=", "origin">>, d, <<b, r>>, TRUE)
DeepenCmd(d, b, r) == Cmd("fetch", <<"--deepen=", "origin">>, d, <<b, r>>, FALSE)
FullFetchCmd == Cmd("fetch", <<>>, NoDepth, <<>>, FALSE)
RevListCmd_Tolerant == Cmd("rev-list", <<"--count", "--all">>, NoDepth, <<>>, TRUE)
RevListCmd == Cmd("rev-list", <<"--count", "--all">>, NoDepth, <<>>, FALSE)
ShowRefCmd(name) == Cmd("show-ref", <<>>, NoDepth, <<name>>, TRUE)

HasOpt(c, o) == \E i \in 1..Len(c.opts) : c.opts[i] = o
IsFetch(c) == c.cmd = "fetch"
IsDeepen(c) == IsFetch(c) /\ HasOpt(c, "--deepen=")
IsFullFetch(c) == IsFetch(c) /\ c.opts = <<>> /\ c.operands = <<>>
IsTagsFetch(c) == IsFetch(c) /\ HasOpt(c, "--tags")
IsDepthFetch(c) == IsFetch(c) /\ HasOpt(c, "--depth=") /\ HasOpt(c, "--no-tags")
IsDiff(c) == c.cmd = "diff"
HasAtom(str, a) == \E i \in 1..Len(str) : str[i] = a
IsTwoDotDiff(c) == IsDiff(c) /\ HasAtom(c.operands[1], "..")
IsThreeDotDiff(c) == IsDiff(c) /\ HasAtom(c.operands[1], "...")

\* git diff <commit> compares the commit with the working tree, index included: with
\* a new file staged its output has a record A for it
StagedDiffOutputs == {o \in DiffOutputs : Len(o) >= 2 /\ o[1] = "A"}

\* What the repository can answer to an invocation: exit code, stdout, and the
\* commits it holds afterwards.  A fetch that succeeds never loses commits and
\* never holds more than the remote has.
Results(c) ==
  CASE c.cmd = "fetch" ->
         {[code |-> 0, stdout |-> <<>>, commits |-> n] : n \in commits..RemoteSize}
         \cup {[code |-> 1, stdout |-> <<>>, commits |-> commits]}
    [] c.cmd \in {"merge-base", "cat-file"} ->
         {[code |-> k, stdout |-> <<>>, commits |-> commits] : k \in ExitCodes}
    [] c.cmd = "show-ref" ->
         {[code |-> IF o = <<>> THEN 1 ELSE 0, stdout |-> o, commits |-> commits] :
            o \in ShowRefOutputs}
    [] c.cmd = "rev-list" ->
         {[code |-> 0, commits |-> commits,
           stdout |-> IF revListGarbled THEN <<>> ELSE Append(ToDecimal(commits), "\n")],
          [code |-> 1, stdout |-> <<>>, commits |-> commits]}
    [] c.cmd \in {"diff", "log"} ->
         {[code |-> 0, stdout |-> o, commits |-> commits] :
            o \in IF c.cmd = "diff" /\ c.operands = <<HEAD>> /\ stagedNew
                  THEN StagedDiffOutputs ELSE DiffOutputs}
         \cup {[code |-> 1, stdout |-> <<>>, commits |-> commits]}
    [] c.cmd = "ls-files" ->
         {[code |-> 0, stdout |-> o, commits |-> commits] : o \in LsFilesOutputs}
         \cup {[code |-> 1, stdout |-> <<>>, commits |-> commits]}

\* exec(): the promise rejects on a non-zero exit code unless ignoreReturnCode
Rejects(c) == c.code # Pending /\ ~c.ignoreReturnCode /\ c.code # 0

LastCall == calls[Len(calls)]
Returned_NoAwait == TRUE
Returned == inflight = {}
Threw == Rejects(LastCall)

\* No run of the code comes near MaxCalls invocations (C3_Terminates); the guard keeps
\* the state space finite when the search loop is altered
MaxCalls == 3 * RemoteSize + 10

Issue(c) ==
  /\ Len(calls) < MaxCalls
  /\ calls' = Append(calls, c)
  /\ inflight' = inflight \cup {Len(calls) + 1}
  /\ res' = res

\* The accessor finishes an invocation
ExecReturn ==
  /\ \E i \in inflight : \E r \in Results(calls[i]) :
       /\ calls' = [calls EXCEPT ![i].code = r.code, ![i].stdout = r.stdout]
       /\ res' = [code |-> r.code, stdout |-> r.stdout]
       /\ commits' = r.commits
       /\ inflight' = inflight \ {i}
  /\ UNCHANGED <<op, pc, args, locals, revListGarbled, stagedNew, result, warned, group, pure>>

\* ------------------------------------------------------------------ core.*
StartGroup(g) == [started |-> g.started + 1, ended |-> g.ended,
                  nested |-> g.nested \/ g.started > g.ended]
EndGroup(g) == [g EXCEPT !.ended = @ + 1]

\* ---------------------------------------------------------------- outcomes
ExecError == <<"exec">>       \* the error a rejected exec() throws
\* new Error(`Could not determine what is ${base} - fetch works but it's not a branch or tag`)
RefError(b) == <<"Could not determine what is ">> \o b
               \o <<" - fetch works but it's not a branch or tag">>

Return(fs) == outcome' = "returned" /\ files' = fs /\ error' = error /\ pc' = "done"
Throw(e) == outcome' = "threw" /\ error' = e /\ files' = files /\ pc' = "done"
Begin(o) == op = "none" /\ pc = "idle" /\ op' = o /\ outcome' = "running"
            /\ files' = files /\ error' = error

\* ------------------------------------------------- getChangesInLastCommit
getChangesInLastCommit_Start ==
  /\ Begin("getChangesInLastCommit")
  /\ group' = StartGroup(group)
  /\ Issue(LogCmd)
  /\ pc' = "L12w"
  /\ UNCHANGED <<args, locals, repo, warned, pure>>

\* finally { fixStdOutNullTermination(); core.endGroup() }; return parseGitDiffOutput(output)
DiffDone(label) ==
  /\ pc = label /\ Returned
  /\ group' = EndGroup(group)
  /\ IF Threw THEN Throw(ExecError) ELSE Return(FilesOfOutput[res.stdout])
  /\ UNCHANGED <<op, args, locals, io, repo, warned, pure>>

getChangesInLastCommit_Done == DiffDone("L12w")

\* ------------------------------------------------------- getChangesOnHead
getChangesOnHead_ViaGetChanges ==
  /\ Begin("getChangesOnHead")
  /\ baseRef' = HEAD /\ Issue(CatFileCmd(HEAD))
  /\ group' = StartGroup(group)
  /\ pc' = "L193w"
  /\ UNCHANGED <<args, noMergeBase, depth, lastCommitCount, repo, warned, pure>>

getChangesOnHead_Start ==
  /\ Begin("getChangesOnHead")
  /\ group' = StartGroup(group)
  /\ Issue(DiffCmd(HEAD))
  /\ pc' = "L48w"
  /\ UNCHANGED <<args, locals, repo, warned, pure>>

getChangesOnHead_Done == DiffDone("L48w")

\* ---------------------------------------------------- listAllFilesAsAdded
listAllFilesAsAdded_Start ==
  /\ Begin("listAllFilesAsAdded")
  /\ group' = StartGroup(group)
  /\ Issue(LsFilesCmd)
  /\ pc' = "L140w"
  /\ UNCHANGED <<args, locals, repo, warned, pure>>

listAllFilesAsAdded_Done ==
  /\ pc = "L140w" /\ Returned
  /\ group' = EndGroup(group)
  /\ IF Threw THEN Throw(ExecError) ELSE Return(AddedOfOutput[res.stdout])
  /\ UNCHANGED <<op, args, locals, io, repo, warned, pure>>

\* ------------------------------------------------------------- getChanges
\* hasCommit(baseRef): startGroup, cat-file -e
getChanges_Start ==
  /\ Begin("getChanges")
  /\ \E b \in Bases \cup {HEAD} : baseRef' = b /\ Issue(CatFileCmd(b))
  /\ group' = StartGroup(group)
  /\ pc' = "L193w"
  /\ UNCHANGED <<args, noMergeBase, depth, lastCommitCount, repo, warned, pure>>

DirectDiffArg(b) == b \o <<"..">> \o HEAD

NeedsFetch_Always(code) == TRUE

\* if (!(await hasCommit(baseRef)))
NeedsFetch(code) == ~(code = 0)

\* hasCommit returned (finally endGroup); fetch the single commit, or go on to the diff
getChanges_HasCommit ==
  /\ pc = "L193w" /\ Returned
  /\ IF NeedsFetch(res.code)
     THEN /\ group' = StartGroup(EndGroup(group))
          /\ Issue(FetchSingleCmd(baseRef))
          /\ pc' = "L25w"
     ELSE /\ group' = StartGroup(EndGroup(group))
          /\ Issue(DiffCmd(DirectDiffArg(baseRef)))
          /\ pc' = "L34w"
  /\ UNCHANGED <<op, args, locals, repo, result, warned, pure>>

\* the fetch of line 25 returned; core.endGroup() of line 26 runs only if it did not throw
getChanges_Fetched ==
  /\ pc = "L25w" /\ Returned
  /\ IF Threw
     THEN /\ Throw(ExecError)
          /\ UNCHANGED <<io, group>>
     ELSE /\ group' = StartGroup(EndGroup(group))
          /\ Issue(DiffCmd(DirectDiffArg(baseRef)))
          /\ pc' = "L34w"
          /\ UNCHANGED result
  /\ UNCHANGED <<op, args, locals, repo, warned, pure>>

getChanges_Done == DiffDone("L34w")

\* ----------------------------------------------- getChangesSinceMergeBase
getChangesSinceMergeBase_Start ==
  /\ Begin("getChangesSinceMergeBase")
  /\ \E b \in Bases, r \in Refs, d \in InitialFetchDepths :
       base' = b /\ ref' = r /\ initialFetchDepth' = d
  /\ baseRef' = Undef            \* let baseRef: string | undefined
  /\ noMergeBase' = FALSE
  /\ group' = StartGroup(group)  \* line 66
  /\ pc' = "L68"
  /\ UNCHANGED <<depth, lastCommitCount, io, repo, warned, pure>>

FullRefSites == {"L68", "L72", "L75"}
Waiting(l) == CASE l = "L68" -> "L68w" [] l = "L72" -> "L72w" [] l = "L75" -> "L75w"
                [] l = "L69" -> "L69w" [] l = "L84" -> "L84w" [] l = "L92" -> "L92w"

AfterFullRef_NoThrow(l, br) ==
  CASE l = "L68" -> "L69"
    [] l = "L72" -> IF br = Undef THEN "L74" ELSE "L82"
    [] l = "L75" -> "L82"

\* Where control goes once getFullRef(base) of line l has given br:
\*   68: on to the first hasMergeBase();  72: if still undefined the tags fetch;
\*   75: if still undefined throw (line 77)
AfterFullRef(l, br) ==
  CASE l = "L68" -> "L69"
    [] l = "L72" -> IF br = Undef THEN "L74" ELSE "L82"
    [] l = "L75" -> IF br = Undef THEN "throw" ELSE "L82"

FullRefGoes(l, br) ==
  /\ baseRef' = br
  /\ IF AfterFullRef(l, br) = "throw"
     THEN Throw(RefError(base)) /\ group' = EndGroup(group)
     ELSE pc' = AfterFullRef(l, br) /\ UNCHANGED <<result, group>>

\* getFullRef(base), lines 205-210: a SHA is its own full ref, else show-ref is asked
getFullRef_Call ==
  /\ pc \in FullRefSites
  /\ IF isGitSha(base)
     THEN FullRefGoes(pc, base) /\ UNCHANGED io
     ELSE /\ Issue(ShowRefCmd(base))
          /\ pc' = Waiting(pc)
          /\ UNCHANGED <<baseRef, result, group>>
  /\ UNCHANGED <<op, args, noMergeBase, depth, lastCommitCount, repo, warned, pure>>

\* getFullRef(base), lines 211-225
getFullRef_Return ==
  /\ \E l \in FullRefSites : pc = Waiting(l) /\ Returned /\ FullRefGoes(l, FullRefOfOutput[res.stdout])
  /\ UNCHANGED <<op, args, noMergeBase, depth, lastCommitCount, io, repo, warned, pure>>

MergeBaseSites == {"L69", "L84", "L92"}

AfterMergeBase_NoInitialFetch(l, has) ==
  CASE l = "L69" -> IF has THEN "L104" ELSE "L82"
    [] l = "L84" -> IF has THEN "L104" ELSE "L85"
    [] l = "L92" -> "L104"

AfterMergeBase_NoBreak(l, has) ==
  CASE l = "L69" -> IF has THEN "L104" ELSE "L70"
    [] l = "L84" -> IF has THEN "L104" ELSE "L85"
    [] l = "L92" -> IF has THEN "L104" ELSE "L85"

\* Where control goes with the answer of hasMergeBase() of line l; after the full
\* fetch (line 92) the loop is left either way
AfterMergeBase(l, has) ==
  CASE l = "L69" -> IF has THEN "L104" ELSE "L70"
    [] l = "L84" -> IF has THEN "L104" ELSE "L85"
    [] l = "L92" -> "L104"

MergeBaseGoes(l, has) ==
  /\ pc' = AfterMergeBase(l, has)
  /\ noMergeBase' = IF l = "L92" /\ ~has THEN TRUE ELSE noMergeBase

hasMergeBase_Call_NoGuard ==
  /\ pc \in MergeBaseSites
  /\ Issue(MergeBaseCmd(baseRef, ref)) /\ pc' = Waiting(pc) /\ UNCHANGED noMergeBase
  /\ UNCHANGED <<op, args, baseRef, depth, lastCommitCount, repo, result, warned, group, pure>>

\* hasMergeBase(), line 61: baseRef !== undefined && ...; no probe for an undefined base
hasMergeBase_Call ==
  /\ pc \in MergeBaseSites
  /\ IF baseRef = Undef
     THEN MergeBaseGoes(pc, FALSE) /\ UNCHANGED io
     ELSE Issue(MergeBaseCmd(baseRef, ref)) /\ pc' = Waiting(pc) /\ UNCHANGED noMergeBase
  /\ UNCHANGED <<op, args, baseRef, depth, lastCommitCount, repo, result, warned, group, pure>>

\* (await exec('git', ['merge-base', baseRef, ref], {ignoreReturnCode: true})).code === 0
HasMergeBase(code) == code = 0

hasMergeBase_Return ==
  /\ \E l \in MergeBaseSites : pc = Waiting(l) /\ Returned /\ MergeBaseGoes(l, HasMergeBase(res.code))
  /\ UNCHANGED <<op, args, baseRef, depth, lastCommitCount, io, repo, result, warned, group, pure>>

\* A rejected exec inside the try of lines 67-102: finally { core.endGroup() }
ThrowInTry == Throw(ExecError) /\ group' = EndGroup(group)

\* line 70
FetchInitial_Call ==
  /\ pc = "L70"
  /\ Issue(FetchDepthCmd(initialFetchDepth, base, ref))
  /\ pc' = "L70w"
  /\ UNCHANGED <<op, args, locals, repo, result, warned, group, pure>>

\* lines 71 and 82: resolve the base if it is still undefined, else start deepening
FetchInitial_Return ==
  /\ pc = "L70w" /\ Returned
  /\ IF Threw THEN ThrowInTry
     ELSE pc' = (IF baseRef = Undef THEN "L72" ELSE "L82") /\ UNCHANGED <<result, group>>
  /\ UNCHANGED <<op, args, locals, io, repo, warned, pure>>

\* line 74
FetchTags_Call ==
  /\ pc = "L74"
  /\ Issue(FetchTagsCmd(base, ref))
  /\ pc' = "L74w"
  /\ UNCHANGED <<op, args, locals, repo, result, warned, group, pure>>

FetchTags_Return ==
  /\ pc = "L74w" /\ Returned
  /\ IF Threw THEN ThrowInTry ELSE pc' = "L75" /\ UNCHANGED <<result, group>>
  /\ UNCHANGED <<op, args, locals, io, repo, warned, pure>>

\* lines 82-83: let depth = initialFetchDepth; let lastCommitCount = await getCommitCount()
CommitCount_Call ==
  /\ pc = "L82"
  /\ depth' = initialFetchDepth
  /\ Issue(RevListCmd)
  /\ pc' = "L83w"
  /\ UNCHANGED <<op, args, baseRef, noMergeBase, lastCommitCount, repo, result, warned, group, pure>>

CommitCount_Return ==
  /\ pc = "L83w" /\ Returned
  /\ IF Threw THEN ThrowInTry /\ UNCHANGED lastCommitCount
     ELSE /\ lastCommitCount' = getCommitCount(res.stdout)
          /\ pc' = "L84"
          /\ UNCHANGED <<result, group>>
  /\ UNCHANGED <<op, args, baseRef, noMergeBase, depth, io, repo, warned, pure>>

\* lines 85-86
Deepen_Call ==
  /\ pc = "L85"
  /\ depth' = NextDepth(depth)
  /\ Issue(DeepenCmd(NextDepth(depth), base, ref))
  /\ pc' = "L86w"
  /\ UNCHANGED <<op, args, baseRef, noMergeBase, lastCommitCount, repo, result, warned, group, pure>>

\* line 87: const commitCount = await getCommitCount()
Deepen_Return ==
  /\ pc = "L86w" /\ Returned
  /\ IF Threw THEN ThrowInTry /\ UNCHANGED io
     ELSE Issue(RevListCmd) /\ pc' = "L87w" /\ UNCHANGED <<result, group>>
  /\ UNCHANGED <<op, args, locals, repo, warned, pure>>

Stalled_Never(commitCount, last) == FALSE

\* if (commitCount === lastCommitCount)
Stalled(commitCount, last) == commitCount = last

\* lines 88-97: a stalled count leads to the full fetch, else the loop goes on
Deepened ==
  /\ pc = "L87w" /\ Returned
  /\ IF Threw THEN ThrowInTry /\ UNCHANGED <<io, lastCommitCount>>
     ELSE /\ UNCHANGED <<result, group>>
          /\ IF Stalled(getCommitCount(res.stdout), lastCommitCount)
             THEN Issue(FullFetchCmd) /\ pc' = "L91w" /\ UNCHANGED lastCommitCount
             ELSE /\ lastCommitCount' = getCommitCount(res.stdout)
                  /\ pc' = "L84"
                  /\ UNCHANGED io
  /\ UNCHANGED <<op, args, baseRef, noMergeBase, depth, repo, warned, pure>>

\* line 92 follows the full fetch of line 91
FullFetch_Return ==
  /\ pc = "L91w" /\ Returned
  /\ IF Threw THEN ThrowInTry ELSE pc' = "L92" /\ UNCHANGED <<result, group>>
  /\ UNCHANGED <<op, args, locals, io, repo, warned, pure>>

DiffArg_AlwaysThreeDot(b, r, no) == b \o <<"...">> \o r

\* lines 104-108
DiffArg(b, r, no) == IF no THEN b \o <<"..">> \o r ELSE b \o <<"...">> \o r

\* lines 100-115: the search group ends, the warning, the diff
Diff_Call ==
  /\ pc = "L104"
  /\ warned' = (warned \/ noMergeBase)
  /\ group' = StartGroup(EndGroup(group))
  /\ Issue(DiffCmd(DiffArg(baseRef, ref, noMergeBase)))
  /\ pc' = "L115w"
  /\ UNCHANGED <<op, args, locals, repo, result, pure>>

getChangesSinceMergeBase_Done == DiffDone("L115w")

\* ------------------------------------------------------- the specification
NoResolve ==
  rName = Undef /\ rLines = <<>> /\ rOutput = <<>> /\ rInvoked = FALSE /\ rRef = Undef

NoGroup == [started |-> 0, ended |-> 0, nested |-> FALSE]

InitOp ==
  /\ op = "none" /\ base = Undef /\ ref = Undef /\ initialFetchDepth = NoDepth
  /\ baseRef = Undef /\ noMergeBase = FALSE /\ depth = NoDepth /\ lastCommitCount = 0
  /\ inflight = {} /\ res = [code |-> 0, stdout |-> <<>>] /\ calls = <<>>
  /\ outcome = "none" /\ files = <<>> /\ error = <<>> /\ warned = FALSE /\ group = NoGroup

Init ==
  /\ InitOp
  /\ pc = "idle"
  /\ commits \in 1..RemoteSize
  /\ revListGarbled \in BOOLEAN
  /\ stagedNew \in BOOLEAN
  /\ pPairs = <<>> /\ pTrail = 0 /\ pOutput = <<>> /\ pFiles = <<>> /\ ppc = "off"
  /\ pClause = NoClause /\ pMatched = <<>>
  /\ NoResolve

Next ==
  \/ getChangesInLastCommit_Start
  \/ getChangesInLastCommit_Done
  \/ getChangesOnHead_Start
  \/ getChangesOnHead_Done
  \/ listAllFilesAsAdded_Start
  \/ listAllFilesAsAdded_Done
  \/ getChanges_Start
  \/ getChanges_HasCommit
  \/ getChanges_Fetched
  \/ getChanges_Done
  \/ getChangesSinceMergeBase_Start
  \/ getFullRef_Call
  \/ getFullRef_Return
  \/ hasMergeBase_Call
  \/ hasMergeBase_Return
  \/ FetchInitial_Call
  \/ FetchInitial_Return
  \/ FetchTags_Call
  \/ FetchTags_Return
  \/ CommitCount_Call
  \/ CommitCount_Return
  \/ Deepen_Call
  \/ Deepen_Return
  \/ Deepened
  \/ FullFetch_Return
  \/ Diff_Call
  \/ getChangesSinceMergeBase_Done
  \/ ExecReturn

Spec == Init /\ [][Next]_vars

\* Every accessor invocation returns and the operation is always scheduled on
FairSpec == Spec /\ WF_vars(Next)

\* ------------------------------------- the pure functions on raw outputs
StatusCodes == {<<"A">>, <<"C">>, <<"D">>, <<"M">>, <<"R">>, <<"U">>}
StatusTokens == StatusCodes \cup {<<"R", "1", "0", "0">>, <<"T">>}
Paths == {<<"f">>, <<"d", "/", "g">>, <<>>}
PairSets == UNION {[1..n -> StatusTokens \X Paths] : n \in 0..MaxPairs}

RECURSIVE Nuls(_)
Nuls(n) == IF n = 0 THEN <<>> ELSE <<NUL>> \o Nuls(n - 1)

RECURSIVE Join(_)
Join(toks) ==
  IF toks = <<>> THEN <<>>
  ELSE IF Len(toks) = 1 THEN toks[1]
  ELSE toks[1] \o <<NUL>> \o Join(Tail(toks))

RECURSIVE Flatten(_)
Flatten(pairs) ==
  IF pairs = <<>> THEN <<>> ELSE <<pairs[1][1], pairs[1][2]>> \o Flatten(Tail(pairs))

\* git's -z output: the tokens NUL-delimited, then trail further NULs
Encode(pairs, trail) == Join(Flatten(pairs)) \o Nuls(trail)

InitPure ==
  /\ InitOp
  /\ pc = "off"
  /\ commits = 1 /\ revListGarbled = FALSE /\ stagedNew = FALSE
  /\ pPairs \in PairSets
  /\ pTrail \in 0..MaxTrail
  /\ pOutput = Encode(pPairs, pTrail)
  /\ pFiles = <<>>
  /\ ppc = "input"
  /\ pClause = NoClause /\ pMatched = <<>>
  /\ NoResolve

Apply_parseGitDiffOutput ==
  /\ ppc = "input"
  /\ pFiles' = parseGitDiffOutput(pOutput)
  /\ ppc' = "parsed"
  /\ UNCHANGED <<op, pc, args, locals, io, repo, result, warned, group, pPairs, pTrail, pOutput,
                 pClause, pMatched, resolve>>

Apply_listAllFilesAsAdded ==
  /\ ppc = "input"
  /\ pFiles' = AllAsAdded(pOutput)
  /\ ppc' = "listed"
  /\ UNCHANGED <<op, pc, args, locals, io, repo, result, warned, group, pPairs, pTrail, pOutput,
                 pClause, pMatched, resolve>>

\* The rule matcher on the files parseGitDiffOutput returned: a clause matches a file
\* when the file's status is in the clause's status filter and its path matches the
\* clause's glob
Apply_ClauseMatch ==
  /\ ppc = "parsed"
  /\ \E c \in Clauses :
       /\ pClause' = c
       /\ pMatched' = MatchedFiles(c, pFiles)
  /\ ppc' = "matched"
  /\ UNCHANGED <<op, pc, args, locals, io, repo, result, warned, group, pPairs, pTrail, pOutput,
                 pFiles, resolve>>

NextPure == Apply_parseGitDiffOutput \/ Apply_listAllFilesAsAdded \/ Apply_ClauseMatch

SpecPure == InitPure /\ [][NextPure]_vars

\* ------------------------------------------- getFullRef on show-ref outputs
\* A line of show-ref: a SHA and a reference, or a line without reference, ended by
\* LF or CRLF
ShortNames == Bases \cup {SubSeq(Sha40, 1, 39)}
RefNames == {<<"refs/", "heads/", "main">>, <<"refs/", "remotes/", "origin/", "main">>,
             <<"refs/", "remotes/", "origin/", "x/", "main">>, <<"refs/", "tags/", "main">>,
             <<>>}
RefLines == [ref : RefNames, eol : {<<"\n">>, <<"\r", "\n">>}]
RefListings == UNION {[1..n -> RefLines] : n \in 0..MaxRefLines}

RECURSIVE Render(_)
Render(lines) ==
  IF lines = <<>> THEN <<>>
  ELSE (IF lines[1].ref = <<>> THEN <<"w", "a", "r", "n">> ELSE Line(lines[1].ref))
         \o lines[1].eol \o Render(Tail(lines))

InitRef ==
  /\ InitOp
  /\ pc = "off"
  /\ commits = 1 /\ revListGarbled = FALSE /\ stagedNew = FALSE
  /\ pPairs = <<>> /\ pTrail = 0 /\ pOutput = <<>> /\ pFiles = <<>>
  /\ pClause = NoClause /\ pMatched = <<>>
  /\ ppc = "refs"
  /\ rName \in ShortNames
  /\ rLines \in RefListings
  /\ rOutput = Render(rLines)
  /\ rInvoked = FALSE /\ rRef = Undef

\* getFullRef(shortName), lines 205-226, with rOutput the stdout of its show-ref
Apply_getFullRef ==
  /\ ppc = "refs"
  /\ IF isGitSha(rName)
     THEN rRef' = rName /\ rInvoked' = FALSE
     ELSE rRef' = FullRefOf(rOutput) /\ rInvoked' = TRUE
  /\ ppc' = "resolved"
  /\ UNCHANGED <<op, pc, args, locals, io, repo, result, warned, group, pPairs, pTrail, pOutput,
                 pFiles, pClause, pMatched, rName, rLines, rOutput>>

NextRef == Apply_getFullRef

SpecRef == InitRef /\ [][NextRef]_vars

\* ====================================================================
\* Properties
\* ====================================================================
Calls == 1..Len(calls)
Done(i) == calls[i].code # Pending
Ok(i) == calls[i].code = 0
IsRevList(i) == calls[i].cmd = "rev-list"
IsMergeBase(i) == calls[i].cmd = "merge-base"
IsShowRef(i) == calls[i].cmd = "show-ref"
InSearch == op = "getChangesSinceMergeBase"
Finished == pc = "done"

\* the count a returned rev-list gave, and the rev-list before invocation i
CountAt(i) == getCommitCount(calls[i].stdout)
PrevRevList(i) == CHOOSE j \in 1..(i - 1) :
                    IsRevList(j) /\ \A k \in (j + 1)..(i - 1) : ~IsRevList(k)

\* invocation i is the count taken after a deepen fetch, and it equals the count
\* taken after the previous attempt
StalledAt(i) ==
  /\ i >= 2 /\ IsRevList(i) /\ Ok(i) /\ IsDeepen(calls[i - 1])
  /\ \E j \in 1..(i - 1) : IsRevList(j)
  /\ CountAt(i) = CountAt(PrevRevList(i))

FullFetches == {i \in Calls : IsFullFetch(calls[i])}

\* C1: a full-history fetch is issued right after every stalled deepen and only
\* there, at most once in a call, and no --deepen fetch follows it
C1_FullFetchOnceAfterStall ==
  InSearch =>
    /\ Cardinality(FullFetches) <= 1
    /\ \A i \in FullFetches : StalledAt(i - 1)
    /\ \A i \in Calls : StalledAt(i) =>
         IF i = Len(calls) THEN pc = "L87w" ELSE IsFullFetch(calls[i + 1])
    /\ \A i \in FullFetches : \A j \in Calls : j > i => ~IsDeepen(calls[j])

\* a call that deepened twice, stalled, fetched everything, and went on to its diff
C1_Witness ==
  /\ InSearch /\ Finished
  /\ Cardinality({i \in Calls : IsDeepen(calls[i])}) >= 2
  /\ \E i \in FullFetches : i + 2 = Len(calls) /\ StalledAt(i - 1)

DiffCalls == {i \in Calls : IsDiff(calls[i])}

\* C2: the diff is base..ref exactly when the full fetch was made and the merge-base
\* probe after it failed; otherwise it is base...ref right after a merge-base probe
\* that succeeded; the warning goes with the two-dot diff, which can still return
C2_FallbackIffNoMergeBase ==
  InSearch =>
    /\ (DiffCalls = {} => ~warned)
    /\ \A d \in DiffCalls :
         /\ d = Len(calls) /\ d >= 2 /\ IsMergeBase(d - 1)
         /\ IsTwoDotDiff(calls[d]) <=>
              (d >= 3 /\ IsFullFetch(calls[d - 2]) /\ Ok(d - 2) /\ ~Ok(d - 1))
         /\ IsTwoDotDiff(calls[d]) => calls[d].operands = <<baseRef \o <<"..">> \o ref>>
         /\ ~IsTwoDotDiff(calls[d]) =>
              /\ calls[d].operands = <<baseRef \o <<"...">> \o ref>>
              /\ Ok(d - 1)
         /\ warned <=> IsTwoDotDiff(calls[d])
         /\ Finished => (outcome = "returned" <=> Ok(d))

\* the fallback was taken, warned about, and the call returned a change set
C2_Witness ==
  /\ InSearch /\ Finished /\ outcome = "returned" /\ warned
  /\ IsTwoDotDiff(LastCall) /\ files # <<>>

\* C3: the call ends, by its diff or by an error, and the guard of Issue never holds
\* an invocation back
C3_Terminates ==
  /\ [](Len(calls) < MaxCalls)
  /\ (InSearch ~> Finished)

\* a call that ended after as many deepen fetches as the remote has commits
C3_Witness ==
  /\ InSearch /\ Finished
  /\ Cardinality({i \in Calls : IsDeepen(calls[i])}) = RemoteSize

TagsFetches == {i \in Calls : IsTagsFetch(calls[i])}
Unresolved(i) == IsShowRef(i) /\ Done(i) /\ FullRefOf(calls[i].stdout) = Undef

\* C4: the tags fetch follows a base unresolved before and after the initial fetch;
\* a base unresolved after the tags fetch too ends the call with the error naming
\* it, before any deepen fetch, full fetch or diff, and nothing is returned
C4_TagsFetchThenRefError ==
  InSearch =>
    /\ \A i \in TagsFetches :
         /\ i = 4
         /\ Unresolved(1) /\ IsDepthFetch(calls[2]) /\ Ok(2) /\ Unresolved(3)
    /\ (TagsFetches # {} /\ Len(calls) >= 5 /\ Unresolved(5)) =>
         /\ Len(calls) = 5
         /\ pc \in {"L75w", "done"}
         /\ outcome # "returned" /\ files = <<>>
         /\ Finished => (outcome = "threw" /\ error = RefError(base))

C4_Witness ==
  /\ InSearch /\ Finished /\ TagsFetches # {} /\ Len(calls) = 5 /\ Unresolved(5)
  /\ error = RefError(base)

\* C5: an invocation that fails without ignoreReturnCode is the last one of its call,
\* which throws and returns nothing; only merge-base, cat-file and show-ref are
\* invoked with ignoreReturnCode
C5_FailureAborts ==
  \A i \in Calls :
    /\ calls[i].ignoreReturnCode <=> calls[i].cmd \in {"merge-base", "cat-file", "show-ref"}
    /\ Rejects(calls[i]) =>
         /\ i = Len(calls)
         /\ outcome # "returned" /\ files = <<>>
         /\ Finished => (outcome = "threw" /\ error = ExecError)

\* the count after the second deepen fetch failed and the call threw
C5_Witness ==
  /\ InSearch /\ Finished /\ outcome = "threw"
  /\ IsRevList(Len(calls)) /\ Rejects(LastCall)
  /\ Cardinality({i \in Calls : IsDeepen(calls[i])}) = 2

Deepens == {i \in Calls : IsDeepen(calls[i])}
FailedAt(i) == Done(i) /\ ~Ok(i)

\* C6 as stated: a --deepen fetch that fails does not end the call, the loop goes on
C6_DeepenFailureRetried ==
  InSearch => \A i \in Deepens : FailedAt(i) => ~(Finished /\ i = Len(calls))

\* C6: a --deepen fetch that fails is not caught: it is the last invocation of the
\* call, which throws the accessor's error and returns nothing
C6_DeepenFailureAborts ==
  InSearch => \A i \in Deepens : FailedAt(i) =>
    /\ i = Len(calls)
    /\ pc \in {"L86w", "done"}
    /\ outcome # "returned" /\ files = <<>>
    /\ Finished => (outcome = "threw" /\ error = ExecError)

\* the second deepen fetch failed and the call threw
C6_Witness ==
  /\ InSearch /\ Finished /\ outcome = "threw"
  /\ Cardinality(Deepens) = 2 /\ IsDeepen(LastCall) /\ FailedAt(Len(calls))

InDirect == op = "getChanges"
DirectFetch(i) == calls[i] = [FetchSingleCmd(baseRef) EXCEPT !.code = calls[i].code]
DirectDiff(i) ==
  /\ IsTwoDotDiff(calls[i]) /\ ~IsThreeDotDiff(calls[i])
  /\ calls[i].operands = <<baseRef \o <<"..">> \o HEAD>>
DirectShape ==
  /\ calls[1].cmd = "cat-file" /\ calls[1].operands = <<baseRef \o <<"^{commit}">> >>
  /\ \A i \in Calls : ~IsMergeBase(i) /\ ~IsDeepen(calls[i]) /\ ~IsFullFetch(calls[i])
                      /\ ~IsThreeDotDiff(calls[i])
  /\ \A i \in Calls : IsFetch(calls[i]) => i = 2 /\ DirectFetch(i) /\ FailedAt(1)
  /\ (FailedAt(1) /\ pc # "L193w") => (Len(calls) >= 2 /\ IsFetch(calls[2]))

\* C7 as stated: every call of getChanges ends having issued exactly one diff
C7_DirectAlwaysDiffs ==
  (InDirect /\ Finished) =>
    /\ DirectShape
    /\ Cardinality(DiffCalls) = 1 /\ DirectDiff(Len(calls))

\* C7: getChanges fetches baseRef at depth 1 exactly when cat-file reports it absent;
\* unless that fetch fails, which ends the call with no diff, it then issues exactly
\* one diff, baseRef..HEAD; it never probes a merge base, deepens, fetches the full
\* history or issues a three-dot diff
C7_DirectCompare ==
  InDirect =>
    /\ DirectShape
    /\ Finished =>
         \/ Cardinality(DiffCalls) = 1 /\ DirectDiff(Len(calls))
         \/ /\ Len(calls) = 2 /\ Rejects(calls[2]) /\ DiffCalls = {}
            /\ outcome = "threw"

\* the commit was absent, fetched, and the diff returned a change set
C7_Witness ==
  /\ InDirect /\ Finished /\ outcome = "returned" /\ files # <<>>
  /\ Len(calls) = 3 /\ IsFetch(calls[2]) /\ DirectDiff(3)

\* ---- the pure functions (SpecPure)
StatusName ==
  (<<"A">> :> "Added") @@ (<<"C">> :> "Copied") @@ (<<"D">> :> "Deleted")
  @@ (<<"M">> :> "Modified") @@ (<<"R">> :> "Renamed") @@ (<<"U">> :> "Unmerged")
Parsed == ppc = "parsed"
WellFormed == \A i \in 1..Len(pPairs) : pPairs[i][1] \in StatusCodes /\ pPairs[i][2] # <<>>

\* C8: n records of a status code and a non-empty path parse to the n files in
\* order, with any number of trailing NULs
C8_ParseRoundTrip ==
  (Parsed /\ WellFormed) =>
    pFiles = [i \in 1..Len(pPairs) |->
                [status |-> StatusName[pPairs[i][1]], filename |-> pPairs[i][2]]]

\* two records, the second deleted, followed by two NULs
C8_Witness ==
  /\ Parsed /\ WellFormed /\ Len(pPairs) = 2 /\ pTrail = 2
  /\ Len(pFiles) = 2 /\ pFiles[2].status = "Deleted" /\ pFiles[1].filename # pFiles[2].filename

Scored == <<"R", "1", "0", "0">>

\* C9: a scored token such as R100 is looked up without its score, so every status
\* is one of the six
C9_ScoreStripped ==
  (Parsed /\ \A i \in 1..Len(pPairs) :
              pPairs[i][1] \in StatusCodes \cup {Scored} /\ pPairs[i][2] # <<>>) =>
    /\ Len(pFiles) = Len(pPairs)
    /\ \A i \in 1..Len(pFiles) :
         /\ pFiles[i].status \in ChangeStatus
         /\ pPairs[i][1] = Scored => pFiles[i].status = "Renamed"

\* C10: no two files of a returned change set have the same path, here for raw
\* outputs whose tokens are status codes and non-empty paths
C10_UniquePaths ==
  (ppc \in {"parsed", "listed"} /\ WellFormed) =>
    \A i, j \in 1..Len(pFiles) : i # j => pFiles[i].filename # pFiles[j].filename

Listed == ppc = "listed"
\* the non-empty tokens the raw output was built from, in order
ListedTokens == SelectSeq(Flatten(pPairs), NonEmpty)

\* C11: listAllFilesAsAdded returns one record per non-empty token of the listing,
\* in order, each with status Added whatever the token is; nothing for a listing
\* without tokens
C11_OneAddedPerToken ==
  Listed =>
    /\ Len(pFiles) = Len(ListedTokens)
    /\ \A i \in 1..Len(pFiles) :
         pFiles[i] = [status |-> "Added", filename |-> ListedTokens[i]]
    /\ (\A i \in 1..Len(pOutput) : pOutput[i] = NUL) => pFiles = <<>>

\* a listing with a token that is a status code, an empty token and trailing NULs
C11_Witness ==
  /\ Listed /\ pTrail = 2 /\ Len(pPairs) = 2
  /\ pPairs[1] = <<(<<"D">>), <<>> >> /\ pPairs[2][2] = <<"d", "/", "g">>
  /\ Len(pFiles) = 3 /\ pFiles[1] = [status |-> "Added", filename |-> <<"D">>]

\* C12: at most one invocation is outstanding, an invocation is issued only when
\* every earlier one has completed, and no two fetches are outstanding together
C12_OneInvocationAtATime ==
  /\ Cardinality(inflight) <= 1
  /\ inflight = {i \in Calls : ~Done(i)}
  /\ \A i \in Calls : i < Len(calls) => Done(i)
  /\ \A i, j \in inflight : (IsFetch(calls[i]) /\ IsFetch(calls[j])) => i = j

\* the full fetch is outstanding after two deepen fetches, counts and probes, all
\* of which have completed
C12_Witness ==
  /\ InSearch /\ inflight = {Len(calls)} /\ IsFullFetch(LastCall)
  /\ Cardinality(Deepens) = 2
  /\ Cardinality({i \in Calls : IsFetch(calls[i]) /\ Done(i)}) = 3

ReadOnlyOps == {"getChangesInLastCommit", "getChangesOnHead", "listAllFilesAsAdded"}
ReadOnlyCmd(o) == CASE o = "getChangesInLastCommit" -> LogCmd
                    [] o = "getChangesOnHead" -> DiffCmd(HEAD)
                    [] o = "listAllFilesAsAdded" -> LsFilesCmd
Issued(i) == [calls[i] EXCEPT !.code = Pending, !.stdout = <<>>]

\* C13: the three read-only operations issue exactly one invocation (log -n 1, diff
\* of the working state against HEAD, ls-files), never a fetch, and no step of them
\* changes what the repository holds; a fetch is issued by getChanges or
\* getChangesSinceMergeBase only; getChangesOnHead reports a staged new file
C13_ReadOnlyOperations ==
  /\ [](/\ op \in ReadOnlyOps =>
             /\ Len(calls) = 1 /\ Issued(1) = ReadOnlyCmd(op)
             /\ ~IsFetch(calls[1])
             /\ Finished => Done(1)
        /\ (op = "getChangesOnHead" /\ stagedNew /\ outcome = "returned") =>
             \E i \in 1..Len(files) : files[i].status = "Added"
        /\ (\E i \in Calls : IsFetch(calls[i])) =>
             op \in {"getChanges", "getChangesSinceMergeBase"})
  /\ [][op' \in ReadOnlyOps => UNCHANGED repo]_vars

\* with a new file staged, getChangesOnHead returned what its one diff against HEAD
\* reported, the staged file among it
C13_Witness ==
  /\ op = "getChangesOnHead" /\ Finished /\ outcome = "returned" /\ stagedNew
  /\ files[1] = [status |-> "Added", filename |-> <<"f">>]
  /\ Len(calls) = 1 /\ calls[1].operands = <<HEAD>> /\ Ok(1)

\* the repository holds one commit: HEAD is a root commit and has no predecessor
RootCommit == commits = 1

\* C14: getChangesInLastCommit on a commit without predecessor fails with the
\* accessor's error and returns no change set
C14_RootCommitFails ==
  (op = "getChangesInLastCommit" /\ RootCommit /\ Finished) =>
    /\ outcome = "threw" /\ error = ExecError
    /\ files = <<>>

Matched == ppc = "matched"
\* record i of the raw output, as the file it stands for
Reported(i) == [status |-> StatusName[pPairs[i][1]], filename |-> pPairs[i][2]]
InMatched(file) == \E j \in 1..Len(pMatched) : pMatched[j] = file

\* C15: raw codes A, D, M become Added, Deleted, Modified, and a clause matches a
\* reported file exactly when the file's status is in the clause's status filter and
\* its path matches the clause's glob: {modified: f} does not match a file reported
\* deleted only, {deleted: f} does, added|deleted|modified matches each of the three
C15_StatusFilter ==
  (Matched /\ WellFormed) =>
    /\ Len(pFiles) = Len(pPairs)
    /\ \A i \in 1..Len(pPairs) :
         /\ pPairs[i][1] = <<"A">> => pFiles[i].status = "Added"
         /\ pPairs[i][1] = <<"D">> => pFiles[i].status = "Deleted"
         /\ pPairs[i][1] = <<"M">> => pFiles[i].status = "Modified"
         /\ InMatched(Reported(i)) <=>
              /\ StatusName[pPairs[i][1]] \in pClause.statusFilter
              /\ GlobMatches(pClause.glob, pPairs[i][2])
    /\ \A j \in 1..Len(pMatched) : \E i \in 1..Len(pPairs) : pMatched[j] = Reported(i)

\* f is reported deleted only and the clause {modified: f} matches nothing
C15_Witness ==
  /\ Matched /\ pPairs = << <<(<<"D">>), <<"f">> >> >>
  /\ pClause = [statusFilter |-> {"Modified"}, glob |-> <<"f">>]
  /\ pFiles = <<[status |-> "Deleted", filename |-> <<"f">>]>> /\ pMatched = <<>>

\* d * 2^k as a number of two limbs, for the k a call can reach
Scaled(d, k) == [hi |-> (2 ^ k) * d.hi + (((2 ^ k) * d.lo) \div Limb),
                 lo |-> ((2 ^ k) * d.lo) % Limb]
\* invocation i is the k-th deepen fetch of the call
DeepenRank(i) == Cardinality({j \in Deepens : j <= i})

\* C16: the k-th deepen fetch of a call asks for min(initialFetchDepth * 2^k,
\* MAX_SAFE_INTEGER); the depths asked for never decrease, never exceed the maximum,
\* and stay at the maximum once it is reached
C16_DepthDoublesSaturating ==
  InSearch => \A i \in Deepens :
    /\ calls[i].depth = Min(Scaled(initialFetchDepth, DeepenRank(i)), MAX_SAFE_INTEGER)
    /\ LessEq(calls[i].depth, MAX_SAFE_INTEGER)
    /\ DeepenRank(i) = 1 => calls[i].depth = Min(Scaled(initialFetchDepth, 1), MAX_SAFE_INTEGER)
    /\ \A j \in Deepens : j < i =>
         /\ LessEq(calls[j].depth, calls[i].depth)
         /\ calls[j].depth = MAX_SAFE_INTEGER => calls[i].depth = MAX_SAFE_INTEGER

\* from 2^52 the first deepen fetch already asks for the maximum, and so does the third
C16_Witness ==
  /\ InSearch /\ initialFetchDepth = [hi |-> 2 ^ 25, lo |-> 0]
  /\ Cardinality(Deepens) = 3
  /\ \A i \in Deepens : calls[i].depth = MAX_SAFE_INTEGER

\* the invocations before the first merge-base check: the show-ref of line 68, if any
Resolving == IF isGitSha(base) THEN 0 ELSE 1
BaseResolved == isGitSha(base) \/ (Len(calls) >= 1 /\ Done(1) /\ ~Unresolved(1))
BaseUnresolved == ~isGitSha(base) /\ Len(calls) >= 1 /\ Unresolved(1)
FirstCheckOk ==
  BaseResolved /\ Len(calls) > Resolving /\ IsMergeBase(Resolving + 1) /\ Ok(Resolving + 1)
FirstCheckFailed ==
  \/ BaseUnresolved
  \/ BaseResolved /\ Len(calls) > Resolving /\ IsMergeBase(Resolving + 1)
       /\ FailedAt(Resolving + 1)
\* where the initial fetch is in the log when the first check failed
InitialFetchAt == IF BaseUnresolved THEN 2 ELSE Resolving + 2
DepthFetches == {i \in Calls : IsDepthFetch(calls[i])}

\* C17: with the base resolved and the first merge-base check successful the call
\* issues no fetch and no commit count, only the three-dot diff; with the base
\* unresolved or the first check failed the very next invocation is the fetch of
\* base and ref at the configured depth, and it is the only such fetch of the call
C17_NoFetchWhenMergeBaseKnown ==
  InSearch =>
    /\ FirstCheckOk =>
         /\ \A i \in Calls : ~IsFetch(calls[i]) /\ ~IsRevList(i)
         /\ Len(calls) <= Resolving + 2
         /\ Len(calls) = Resolving + 2 =>
              /\ IsThreeDotDiff(LastCall) /\ ~IsTwoDotDiff(LastCall)
              /\ LastCall.operands = <<baseRef \o <<"...">> \o ref>>
         /\ Finished => Len(calls) = Resolving + 2
    /\ FirstCheckFailed =>
         /\ Len(calls) < InitialFetchAt => pc \in {"L68w", "L69", "L69w", "L70"}
         /\ Len(calls) >= InitialFetchAt =>
              /\ Issued(InitialFetchAt) = FetchDepthCmd(initialFetchDepth, base, ref)
              /\ DepthFetches = {InitialFetchAt}
    /\ DepthFetches # {} => FirstCheckFailed

\* a branch name resolved, the merge base was there, and the call returned after
\* show-ref, merge-base and the three-dot diff
C17_Witness ==
  /\ InSearch /\ Finished /\ outcome = "returned" /\ ~isGitSha(base)
  /\ FirstCheckOk /\ Len(calls) = 3 /\ IsThreeDotDiff(LastCall)

Resolved == ppc = "resolved"
\* the references show-ref reported, in order
ReportedRefs == SelectSeq([k \in 1..Len(rLines) |-> rLines[k].ref], NonEmpty)
OfOrigin(r) == Len(r) >= 3 /\ r[1] = "refs/" /\ r[2] = "remotes/" /\ r[3] = "origin/"
FirstOfOrigin == CHOOSE i \in 1..Len(ReportedRefs) :
                   OfOrigin(ReportedRefs[i]) /\ \A j \in 1..(i - 1) : ~OfOrigin(ReportedRefs[j])

\* C18: a 40 character SHA is returned as it is and show-ref is not invoked; any other
\* name gives the first reported reference under refs/remotes/origin/ wherever it is
\* in the list, else the first reported reference, and undefined exactly when
\* show-ref reported no reference
C18_FullRefPrefersOrigin ==
  Resolved =>
    /\ rName = Sha40 => (rRef = rName /\ ~rInvoked)
    /\ rName # Sha40 =>
         /\ rInvoked
         /\ rRef = IF ReportedRefs = <<>> THEN Undef
                   ELSE IF \E i \in 1..Len(ReportedRefs) : OfOrigin(ReportedRefs[i])
                        THEN ReportedRefs[FirstOfOrigin]
                        ELSE ReportedRefs[1]
    /\ rRef = Undef <=> (rInvoked /\ ReportedRefs = <<>>)

\* show-ref printed a tag, a line without reference and then a reference of origin,
\* which getFullRef returned
C18_Witness ==
  /\ Resolved /\ rInvoked /\ Len(rLines) = 3
  /\ rLines[1].ref = <<"refs/", "tags/", "main">> /\ rLines[2].ref = <<>>
  /\ rLines[3].ref = <<"refs/", "remotes/", "origin/", "x/", "main">>
  /\ rLines[1].eol = <<"\r", "\n">>
  /\ rRef = rLines[3].ref

\* the string was built from an undefined value
FromUndefined(str) == HasAtom(str, undefined)

\* C19: every diff of getChangesSinceMergeBase, the two-dot one included, is built
\* from a defined baseRef, and no merge-base probe is invoked with an undefined
\* base: after a show-ref that resolved nothing the next invocation is no probe
C19_BaseDefinedAtDiff ==
  InSearch =>
    /\ pc \in {"L104", "L115w"} => baseRef # Undef
    /\ \A i \in Calls :
         /\ IsDiff(calls[i]) =>
              /\ baseRef # Undef
              /\ ~FromUndefined(calls[i].operands[1])
              /\ SubSeq(calls[i].operands[1], 1, Len(baseRef)) = baseRef
         /\ IsMergeBase(i) =>
              /\ calls[i].operands[1] # Undef
              /\ ~FromUndefined(calls[i].operands[1])
         /\ (Unresolved(i) /\ i < Len(calls)) => ~IsMergeBase(i + 1)

\* the base was unresolved at first, resolved after the initial fetch, and the call
\* came to the two-dot diff of the resolved reference
C19_Witness ==
  /\ InSearch /\ Len(calls) >= 2 /\ Unresolved(1) /\ baseRef # Undef
  /\ IsTwoDotDiff(LastCall) /\ ~FromUndefined(LastCall.operands[1])

\* C20: groups are never nested, and when an operation has ended, by returning or by
\* throwing, every group it opened has been closed
C20_GroupsBalanced ==
  /\ ~group.nested
  /\ group.ended <= group.started
  /\ Finished => group.started = group.ended

====
